---- MODULE Spec2Model ----
(***************************************************************************)
(* GrocSplit: the ledger (people, cycles, transactions, dinner entries,    *)
(* personal receipts), the Express route handlers that mutate it and the   *)
(* billing calculation computeBill.                                        *)
(*                                                                         *)
(* Money is held in mills (1/1000 of a dollar) so that a CSV debit with    *)
(* three decimals is representable; strings are sequences of one-character *)
(* strings so that parsing, trimming and fingerprint formatting are        *)
(* computed character by character.                                        *)
(***************************************************************************)
EXTENDS Integers, Sequences, FiniteSets, TLC

\* ------------------------------------------------------------------------
\* Bounds of the model
\* ------------------------------------------------------------------------

\* number of requests (and runs of the seed script) served in one behaviour
MaxSteps == 4

\* ------------------------------------------------------------------------
\* Character strings
\* ------------------------------------------------------------------------

\* the characters the model's strings are made of, in ASCII order
Chars ==
  <<"\t", "\n", "\r", " ", "\"", "*", ",", "-", ".",
    "0", "1", "2", "3", "4", "5", "6", "7", "8", "9", ":",
    "A", "B", "C", "D", "E", "F", "G", "H", "I", "J", "K", "L", "M",
    "N", "O", "P", "Q", "R", "S", "T", "U", "V", "W", "X", "Y", "Z", "_",
    "a", "b", "c", "d", "e", "f", "g", "h", "i", "j", "k", "l", "m",
    "n", "o", "p", "q", "r", "s", "t", "u", "v", "w", "x", "y", "z">>

Code(c) == CHOOSE k \in 1..Len(Chars) : Chars[k] = c

IsDigit(c) == c \in {"0", "1", "2", "3", "4", "5", "6", "7", "8", "9"}

DigitVal(c) == Code(c) - Code("0")

DigitChar(d) == Chars[Code("0") + d]

IsUpper(c) == Code("A") <= Code(c) /\ Code(c) <= Code("Z")

\* String.prototype.toLowerCase, one character
LowerChar(c) == IF IsUpper(c) THEN Chars[Code(c) + (Code("a") - Code("A"))] ELSE c

ToLowerCase(s) == [k \in 1..Len(s) |-> LowerChar(s[k])]

IsSpace(c) == c \in {" ", "\t", "\r", "\n"}

\* String.prototype.slice(0, n)
Take(s, n) == IF Len(s) <= n THEN s ELSE SubSeq(s, 1, n)

Drop(s, n) == IF Len(s) <= n THEN <<>> ELSE SubSeq(s, n + 1, Len(s))

RECURSIVE TrimStart(_)
TrimStart(s) ==
  IF s # <<>> /\ IsSpace(Head(s)) THEN TrimStart(Tail(s)) ELSE s

RECURSIVE TrimEnd(_)
TrimEnd(s) ==
  IF s # <<>> /\ IsSpace(s[Len(s)]) THEN TrimEnd(SubSeq(s, 1, Len(s) - 1)) ELSE s

\* String.prototype.trim
Trim(s) == TrimEnd(TrimStart(s))

\* String.prototype.split on a single separator character
RECURSIVE SplitOn(_, _, _, _)
SplitOn(s, sep, cur, acc) ==
  IF s = <<>> THEN Append(acc, cur)
  ELSE IF Head(s) = sep THEN SplitOn(Tail(s), sep, <<>>, Append(acc, cur))
  ELSE SplitOn(Tail(s), sep, Append(cur, Head(s)), acc)

\* String.prototype.includes
Includes(s, sub) ==
  \E k \in 0..(Len(s) - Len(sub)) : SubSeq(s, k + 1, k + Len(sub)) = sub

\* the decimal digits of a natural number
RECURSIVE NatChars(_)
NatChars(n) ==
  IF n < 10 THEN <<DigitChar(n)>> ELSE Append(NatChars(n \div 10), DigitChar(n % 10))

\* String(n).padStart(2, "0")
Pad2(n) == IF n < 10 THEN <<"0">> \o NatChars(n) ELSE NatChars(n)

RECURSIVE SumSeq(_)
SumSeq(s) == IF s = <<>> THEN 0 ELSE Head(s) + SumSeq(Tail(s))

\* the sum of the amount column over a set of rows
RECURSIVE SumAmount(_)
SumAmount(rows) ==
  IF rows = {} THEN 0
  ELSE LET r == CHOOSE x \in rows : TRUE IN r.amount + SumAmount(rows \ {r})

\* ------------------------------------------------------------------------
\* State
\* ------------------------------------------------------------------------

VARIABLES
  people,     \* table people: set of [id, name, active]
  cycles,     \* table cycles: set of [id, month_key, date_from, date_to, finalized]
  txs,        \* table transactions: set of rows
  dinners,    \* table dinner_entries in rowid order
  receipts,   \* table personal_receipts: set of [id, cycle_id, person_id, amount]
  item,       \* table plaid_items: TRUE when a bank item is connected
  syncs,      \* bank-sync requests waiting for plaidClient.transactionsGet
  issued,     \* number of transaction and of receipt ids uuidv4 has given out
  steps,      \* number of requests served so far
  res,        \* the response of the request served last
  hist,       \* history: what the properties need to know of earlier requests
  probe       \* one call of a function of the routes: its arguments and its result

vars == <<people, cycles, txs, dinners, receipts, item, syncs, issued, steps, res, hist,
          probe>>

\* the value of a column that is NULL
Null == [null |-> TRUE, val |-> <<>>]

NotNull(v) == [null |-> FALSE, val |-> v]

\* a response: the handler that produced it, the :id or :cycleId of its URL,
\* the HTTP status and the counters of a batch response
\* (csv echoes the text an import request sent, so that two requests with the
\* same text can be told from two requests with different texts)
Response(op, cid, status) ==
  [op |-> op, cid |-> cid, status |-> status,
   added |-> 0, skipped |-> 0, errors |-> 0, csv |-> <<>>]

Batch(op, cid, status, added, skipped, errors, csv) ==
  [op |-> op, cid |-> cid, status |-> status,
   added |-> added, skipped |-> skipped, errors |-> errors, csv |-> csv]

\* hist.reopened: the open cycles that were finalized and then unfinalized;
\* hist.repeat: the request served last finalized a finalized cycle or
\* unfinalized an open one, or was a dinner-count save for the cycle of the
\* save served just before it, or was a bank sync answered while another one
\* was waiting for its feed or right after such a sync;
\* hist.reimport: the request served last was an import that sent the text of
\* the import request served just before it, to the same cycle, both answered
\* 200

\* the column finalized of the cycle id, FALSE when no cycle has the id
Finalized(id) == \E c \in cycles : c.id = id /\ c.finalized

\* the history after a request that is neither an unfinalize nor an import
Quiet == [hist EXCEPT !.reimport = FALSE, !.repeat = FALSE]

\* the empty database
Empty ==
  /\ people = {}
  /\ cycles = {}
  /\ txs = {}
  /\ dinners = <<>>
  /\ receipts = {}
  /\ item = FALSE
  /\ syncs = <<>>
  /\ issued = [tx |-> 0, receipt |-> 0]
  /\ steps = 0
  /\ res = Response("none", 0, 0)
  /\ hist = [reopened |-> {}, reimport |-> FALSE, repeat |-> FALSE]

\* no call is probed while the server runs
NoProbe == [fn |-> "none", done |-> FALSE]

Init == Empty /\ probe = NoProbe

\* ------------------------------------------------------------------------
\* Values of a JSON request body
\* ------------------------------------------------------------------------

\* a JSON value sent where a number is expected: absent, a number (in
\* mills for money, in units for dinner counts), a non-empty string that
\* Number() reads as a number, or a non-numeric string
Absent == [k |-> "none", v |-> 0]

Num(n) == [k |-> "num", v |-> n]

NumStr(n) == [k |-> "str", v |-> n]

NotANumber == [k |-> "nan", v |-> 0]

\* !x of JavaScript for such a value
Falsy(x) == x.k = "none" \/ (x.k = "num" /\ x.v = 0)

\* Number(x) is NaN
IsNaN(x) == x.k \notin {"num", "str"}

\* Number(x) || 0
NumberOrZero(x) == IF x.k \in {"num", "str"} THEN x.v ELSE 0

\* Math.abs
Abs(n) == IF n < 0 THEN -n ELSE n

\* ------------------------------------------------------------------------
\* db/index.js: the prepared statements
\* ------------------------------------------------------------------------

\* string comparison of SQLite's BINARY collation
RECURSIVE LessStr(_, _)
LessStr(a, b) ==
  IF b = <<>> THEN FALSE
  ELSE IF a = <<>> THEN TRUE
  ELSE IF Head(a) = Head(b) THEN LessStr(Tail(a), Tail(b))
  ELSE Code(Head(a)) < Code(Head(b))

RECURSIVE OrderByName(_)
OrderByName(rows) ==
  IF rows = {} THEN <<>>
  ELSE LET m == CHOOSE x \in rows : \A y \in rows \ {x} : LessStr(x.name, y.name)
       IN <<m>> \o OrderByName(rows \ {m})

\* people.all without WHERE active = 1
peopleAllEver == OrderByName(people)

\* people.all: SELECT * FROM people WHERE active = 1 ORDER BY name
peopleAll == OrderByName({p \in people : p.active})

\* people.byId
peopleById(id) == {p \in people : p.id = id}

\* cycles.byId
cyclesById(id) == {c \in cycles : c.id = id}

\* isFinalized without the test
isFinalizedNever(id) == FALSE

\* isFinalized that takes every cycle found for finalized
isFinalizedSticky(id) == cyclesById(id) # {}

\* cycle.finalized of the row cycles.byId.get(id) returned
isFinalized(id) == \E c \in cyclesById(id) : c.finalized

\* cycles.byMonthKey that compares date_from in the place of month_key
cyclesByMonthKeyByDate(mk) == {c \in cycles : c.date_from = mk}

\* cycles.byMonthKey
cyclesByMonthKey(mk) == {c \in cycles : c.month_key = mk}

\* cycles.finalize that flips the column in the place of setting it
cyclesFinalizeFlip(id) ==
  {IF c.id = id THEN [c EXCEPT !.finalized = ~@] ELSE c : c \in cycles}

\* cycles.finalize: UPDATE cycles SET finalized = 1 WHERE id = ?
cyclesFinalize(id) ==
  {IF c.id = id THEN [c EXCEPT !.finalized = TRUE] ELSE c : c \in cycles}

\* tx.byCycle
txByCycle(cid) == {t \in txs : t.cycle_id = cid}

\* tx.totalForCycle: SELECT COALESCE(SUM(amount), 0) ... WHERE cycle_id = ?
txTotalForCycle(cid) == SumAmount(txByCycle(cid))

\* tx.setVerified: UPDATE transactions SET verified = @verified WHERE id = @id
txSetVerified(id, verified) ==
  {IF t.id = id THEN [t EXCEPT !.verified = verified] ELSE t : t \in txs}

\* tx.delete: DELETE FROM transactions WHERE id = ?
txDelete(id) == {t \in txs : t.id # id}

\* the id uuidv4() gives the next person or cycle (rows that are never deleted)
NewId(rows) == Cardinality(rows) + 1

\* an insert that ignores a row equal, but for its id, to a stored one
txInsertDistinct(rows, r) ==
  IF IsNaN(r.amount)
       \/ \E t \in rows : [t EXCEPT !.id = r.id] = [r EXCEPT !.amount = r.amount.v]
  THEN rows
  ELSE rows \cup {[r EXCEPT !.amount = r.amount.v]}

\* tx.insert: INSERT OR IGNORE INTO transactions; a NaN amount is bound as
\* NULL, which violates NOT NULL, and OR IGNORE then skips the row silently
txInsert(rows, r) ==
  IF IsNaN(r.amount) THEN rows ELSE rows \cup {[r EXCEPT !.amount = r.amount.v]}

\* dinners.byCycle joined with the active people only
dinnersByCycleActive(cid) ==
  SelectSeq(dinners, LAMBDA d : d.cycle_id = cid
                                 /\ \E p \in people : p.id = d.person_id /\ p.active)

\* dinners.byCycle: the entries of a cycle joined with their person
dinnersByCycle(cid) == SelectSeq(dinners, LAMBDA d : d.cycle_id = cid)

\* the foreign keys of dinner_entries and personal_receipts (foreign_keys = ON)
ForeignKeysOk(cid, pid) == cyclesById(cid) # {} /\ peopleById(pid) # {}

\* an insert that leaves an existing entry of the pair as it is
dinnersUpsertIgnore(d, cid, pid, count) ==
  IF \E k \in 1..Len(d) : d[k].cycle_id = cid /\ d[k].person_id = pid
  THEN d
  ELSE Append(d, [cycle_id |-> cid, person_id |-> pid, dinner_count |-> count])

\* dinners.upsert: INSERT ... ON CONFLICT(cycle_id, person_id) DO UPDATE
dinnersUpsert(d, cid, pid, count) ==
  IF \E k \in 1..Len(d) : d[k].cycle_id = cid /\ d[k].person_id = pid
  THEN [k \in 1..Len(d) |->
          IF d[k].cycle_id = cid /\ d[k].person_id = pid
          THEN [d[k] EXCEPT !.dinner_count = count] ELSE d[k]]
  ELSE Append(d, [cycle_id |-> cid, person_id |-> pid, dinner_count |-> count])

\* receipts.byCycle
receiptsByCycle(cid) == {r \in receipts : r.cycle_id = cid}

\* receipts.delete
receiptsDelete(id) == {r \in receipts : r.id # id}

\* ------------------------------------------------------------------------
\* db/index.js: the billing calculation
\* ------------------------------------------------------------------------

\* Math.round(n / d) for d > 0: the nearest integer, a half rounded up
RoundDiv(n, d) == (2 * n + d) \div (2 * d)

\* the sum of the receipts of one person among the receipts of a cycle
PaidBy(rs, pid) == SumAmount({r \in rs : r.person_id = pid})

\* billRow with Math.floor in the place of Math.round
billRowFloor(d, total, totalDinners, rs) ==
  LET paid == PaidBy(rs, d.person_id)
      pos  == totalDinners > 0
  IN [person_id    |-> d.person_id,
      dinner_count |-> d.dinner_count,
      pct     |-> IF pos THEN (d.dinner_count * 10000) \div totalDinners ELSE 0,
      owes    |-> IF pos THEN (total * d.dinner_count) \div (totalDinners * 10) ELSE 0,
      paid    |-> paid \div 10,
      balance |-> IF pos
                  THEN (total * d.dinner_count - paid * totalDinners)
                         \div (totalDinners * 10)
                  ELSE (0 - paid) \div 10]

\* billRow with a full share, in the place of none, when nobody ate
billRowFullShare(d, total, totalDinners, rs) ==
  LET paid == PaidBy(rs, d.person_id)
      pos  == totalDinners > 0
  IN [person_id    |-> d.person_id,
      dinner_count |-> d.dinner_count,
      pct     |-> IF pos THEN RoundDiv(d.dinner_count * 10000, totalDinners) ELSE 10000,
      owes    |-> IF pos THEN RoundDiv(total * d.dinner_count, totalDinners * 10)
                  ELSE RoundDiv(total, 10),
      paid    |-> RoundDiv(paid, 10),
      balance |-> IF pos
                  THEN RoundDiv(total * d.dinner_count - paid * totalDinners,
                                totalDinners * 10)
                  ELSE RoundDiv(total - paid, 10)]

\* one row of the bill; pct in hundredths of a percent, money in cents
billRow(d, total, totalDinners, rs) ==
  LET paid == PaidBy(rs, d.person_id)
      pos  == totalDinners > 0
  IN [person_id    |-> d.person_id,
      dinner_count |-> d.dinner_count,
      pct     |-> IF pos THEN RoundDiv(d.dinner_count * 10000, totalDinners) ELSE 0,
      owes    |-> IF pos THEN RoundDiv(total * d.dinner_count, totalDinners * 10) ELSE 0,
      paid    |-> RoundDiv(paid, 10),
      balance |-> IF pos
                  THEN RoundDiv(total * d.dinner_count - paid * totalDinners,
                                totalDinners * 10)
                  ELSE RoundDiv(0 - paid, 10)]

computeBill(cycleId) ==
  LET total        == txTotalForCycle(cycleId)
      ds           == dinnersByCycle(cycleId)
      rs           == receiptsByCycle(cycleId)
      totalDinners == SumSeq([k \in 1..Len(ds) |-> ds[k].dinner_count])
  IN [total        |-> total,
      totalDinners |-> totalDinners,
      billRows     |-> [k \in 1..Len(ds) |-> billRow(ds[k], total, totalDinners, rs)]]

\* ------------------------------------------------------------------------
\* Requests: the values the model sends
\* ------------------------------------------------------------------------

\* names sent to POST /api/people
NameSamples == {<<"A", "l">>, <<"B", "o">>}

\* month keys sent to POST /api/cycles
MonthKeySamples ==
  {<<"2", "0", "2", "5", "-", "0", "1">>, <<"2", "0", "2", "5", "-", "0", "2">>,
   <<"2", "0", "2", "5", "-", "1", "3">>}

\* ids a URL or a body can name: every id given out so far
CycleIds == 1..Cardinality(cycles)

\* the ids sent to /api/people/:id: those of the people, and one of nobody
PersonParams == 1..(Cardinality(people) + 1)

PersonIds == 1..Cardinality(people)

TxIds == 1..issued.tx

ReceiptIds == 1..issued.receipt

\* dinner counts sent to PUT /api/cycles/:id/dinners
DinnerSamples == {Num(1), Num(2), Num(-1)}

\* the arrays sent to PUT /api/cycles/:id/dinners: one entry, or one entry
\* for each of the first two people
DinnerBodies ==
  {<<[person_id |-> p, dinner_count |-> n]>> : p \in PersonIds, n \in DinnerSamples}
  \cup {<<[person_id |-> 1, dinner_count |-> n], [person_id |-> 2, dinner_count |-> m]>> :
          n \in DinnerSamples, m \in DinnerSamples}

\* amounts (mills) sent to POST /api/cycles/:id/receipts
ReceiptAmountSamples == {Absent, Num(0), Num(2000), Num(-1500)}

\* merchants and amounts (mills) sent to POST /api/cycles/:cycleId/transactions
MerchantSamples == {<<>>, <<" ", "M", " ">>}

TxAmountSamples == {Num(0), Num(3000), Num(-1005), NumStr(0)}

\* new Date().toISOString().slice(0, 10)
Today == <<"2", "0", "2", "5", "-", "0", "1", "-", "1", "5">>

\* ------------------------------------------------------------------------
\* routes/people.js
\* ------------------------------------------------------------------------

\* POST /api/people  { name }
AddPerson(name) ==
  /\ steps < MaxSteps
  /\ steps' = steps + 1
  /\ IF Trim(name) = <<>>
     THEN /\ res' = Response("addPerson", 0, 400)
          /\ UNCHANGED people
     ELSE IF \E p \in people : p.name = Trim(name)
     THEN \* UNIQUE constraint failed: people.name
          /\ res' = Response("addPerson", 0, 409)
          /\ UNCHANGED people
     ELSE /\ people' = people \cup
                         {[id |-> NewId(people), name |-> Trim(name), active |-> TRUE]}
          /\ res' = Response("addPerson", 0, 201)
  /\ UNCHANGED <<cycles, txs, dinners, receipts, item, syncs, issued>>
  /\ hist' = Quiet

\* PATCH /api/people/:id  { name }
RenamePerson(id, name) ==
  /\ steps < MaxSteps
  /\ steps' = steps + 1
  /\ IF Trim(name) = <<>>
     THEN /\ res' = Response("renamePerson", 0, 400)
          /\ UNCHANGED people
     ELSE IF peopleById(id) # {} /\ \E q \in people : q.id # id /\ q.name = Trim(name)
     THEN \* UNIQUE constraint failed: people.name
          /\ res' = Response("renamePerson", 0, 500)
          /\ UNCHANGED people
     ELSE /\ people' = {IF p.id = id THEN [p EXCEPT !.name = Trim(name)] ELSE p :
                          p \in people}
          /\ res' = Response("renamePerson", 0, 200)
  /\ UNCHANGED <<cycles, txs, dinners, receipts, item, syncs, issued>>
  /\ hist' = Quiet

\* DELETE /api/people/:id  (soft delete)
DeactivatePerson(id) ==
  /\ steps < MaxSteps
  /\ steps' = steps + 1
  /\ people' = {IF p.id = id THEN [p EXCEPT !.active = FALSE] ELSE p : p \in people}
  /\ res' = Response("deactivatePerson", 0, 200)
  /\ UNCHANGED <<cycles, txs, dinners, receipts, item, syncs, issued>>
  /\ hist' = Quiet

\* ------------------------------------------------------------------------
\* routes/cycles.js
\* ------------------------------------------------------------------------

\* /^\d{4}-\d{2}$/
MonthKeyOk(mk) ==
  /\ Len(mk) = 7
  /\ \A k \in {1, 2, 3, 4, 6, 7} : IsDigit(mk[k])
  /\ mk[5] = "-"

\* Number() of a string of digits
RECURSIVE DigitsVal(_)
DigitsVal(s) ==
  IF s = <<>> THEN 0 ELSE 10 * DigitsVal(SubSeq(s, 1, Len(s) - 1)) + DigitVal(s[Len(s)])

IsLeap(y) == (y % 4 = 0 /\ y % 100 # 0) \/ y % 400 = 0

DaysInMonth(y, m) ==
  IF m = 2 THEN (IF IsLeap(y) THEN 29 ELSE 28)
  ELSE IF m \in {4, 6, 9, 11} THEN 30 ELSE 31

\* new Date(year, month, 0).getDate(): day 0 of the month after the month
\* numbered `month`, with Date's overflow into the neighbouring years and its
\* reading of a year below 100 as 19xx
lastDayOf(year, month) ==
  LET y == IF year < 100 THEN 1900 + year ELSE year
  IN DaysInMonth(y + ((month - 1) \div 12), ((month - 1) % 12) + 1)

\* the pre-seeding loop of POST /api/cycles
RECURSIVE PreSeed(_, _, _)
PreSeed(d, cid, ps) ==
  IF ps = <<>> THEN d
  ELSE PreSeed(dinnersUpsert(d, cid, Head(ps).id, 0), cid, Tail(ps))

\* POST /api/cycles  { month_key }
CreateCycle(month_key) ==
  /\ steps < MaxSteps
  /\ steps' = steps + 1
  /\ IF ~MonthKeyOk(month_key)
     THEN /\ res' = Response("createCycle", 0, 400)
          /\ UNCHANGED <<cycles, dinners>>
     ELSE IF cyclesByMonthKey(month_key) # {}
     THEN /\ res' = Response("createCycle", 0, 409)
          /\ UNCHANGED <<cycles, dinners>>
     ELSE LET id      == NewId(cycles)
              year    == DigitsVal(SubSeq(month_key, 1, 4))
              month   == DigitsVal(SubSeq(month_key, 6, 7))
              lastDay == lastDayOf(year, month)
          IN /\ cycles' = cycles \cup
                  {[id        |-> id,
                    month_key |-> month_key,
                    date_from |-> month_key \o <<"-", "0", "1">>,
                    date_to   |-> month_key \o <<"-">> \o Pad2(lastDay),
                    finalized |-> FALSE]}
             /\ dinners' = PreSeed(dinners, id, peopleAll)
             /\ res' = Response("createCycle", id, 201)
  /\ UNCHANGED <<people, txs, receipts, item, syncs, issued>>
  /\ hist' = Quiet

\* POST /api/cycles/:id/finalize
Finalize(id) ==
  /\ steps < MaxSteps
  /\ steps' = steps + 1
  /\ IF cyclesById(id) = {}
     THEN /\ res' = Response("finalize", id, 404)
          /\ UNCHANGED cycles
     ELSE /\ cycles' = cyclesFinalize(id)
          /\ res' = Response("finalize", id, 200)
  /\ UNCHANGED <<people, txs, dinners, receipts, item, syncs, issued>>
  /\ hist' = [reopened |-> hist.reopened \ {id}, reimport |-> FALSE,
              repeat |-> Finalized(id)]

\* cycles.unfinalize: the statement POST /:id/unfinalize runs
cyclesUnfinalize(id) ==
  {IF c.id = id THEN [c EXCEPT !.finalized = FALSE] ELSE c : c \in cycles}

\* POST /api/cycles/:id/unfinalize
Unfinalize(id) ==
  /\ steps < MaxSteps
  /\ steps' = steps + 1
  /\ IF cyclesById(id) = {}
     THEN /\ res' = Response("unfinalize", id, 404)
          /\ UNCHANGED cycles
     ELSE /\ cycles' = cyclesUnfinalize(id)
          /\ res' = Response("unfinalize", id, 200)
  /\ UNCHANGED <<people, txs, dinners, receipts, item, syncs, issued>>
  /\ hist' = [reopened |-> IF Finalized(id) THEN hist.reopened \cup {id}
                               ELSE hist.reopened,
              reimport |-> FALSE,
              repeat |-> (\E c \in cycles : c.id = id /\ ~c.finalized)]

\* the loop of PUT /:id/dinners: the entries are upserted one by one until
\* one of them breaks a foreign key, which throws
RECURSIVE UpsertAll(_, _, _)
UpsertAll(d, cid, entries) ==
  IF entries = <<>> THEN [d |-> d, ok |-> TRUE]
  ELSE IF ~ForeignKeysOk(cid, Head(entries).person_id) THEN [d |-> d, ok |-> FALSE]
  ELSE UpsertAll(dinnersUpsert(d, cid, Head(entries).person_id,
                               NumberOrZero(Head(entries).dinner_count)),
                 cid, Tail(entries))

\* PUT /api/cycles/:id/dinners  [{ person_id, dinner_count, notes }]
PutDinners(id, entries) ==
  /\ steps < MaxSteps
  /\ steps' = steps + 1
  /\ LET r == UpsertAll(dinners, id, entries)
     IN /\ dinners' = r.d
        /\ res' = Response("putDinners", id, IF r.ok THEN 200 ELSE 500)
  /\ UNCHANGED <<people, cycles, txs, receipts, item, syncs, issued>>
  /\ hist' = [Quiet EXCEPT !.repeat = (res.op = "putDinners" /\ res.cid = id)]

\* POST /api/cycles/:id/receipts  { person_id, amount, note, date }
AddReceipt(id, person_id, amount) ==
  /\ steps < MaxSteps
  /\ steps' = steps + 1
  /\ IF Falsy(amount)
     THEN /\ res' = Response("addReceipt", id, 400)
          /\ UNCHANGED <<receipts, issued>>
     ELSE IF ~ForeignKeysOk(id, person_id) \/ IsNaN(amount)
     THEN \* FOREIGN KEY or NOT NULL constraint failed
          /\ res' = Response("addReceipt", id, 500)
          /\ UNCHANGED <<receipts, issued>>
     ELSE /\ receipts' = receipts \cup
                 {[id |-> issued.receipt + 1, cycle_id |-> id,
                   person_id |-> person_id, amount |-> amount.v]}
          /\ issued' = [issued EXCEPT !.receipt = @ + 1]
          /\ res' = Response("addReceipt", id, 201)
  /\ UNCHANGED <<people, cycles, txs, dinners, item, syncs>>
  /\ hist' = Quiet

\* DELETE /api/cycles/:id/receipts/:receiptId
DeleteReceipt(id, receiptId) ==
  /\ steps < MaxSteps
  /\ steps' = steps + 1
  /\ receipts' = receiptsDelete(receiptId)
  /\ res' = Response("deleteReceipt", id, 200)
  /\ UNCHANGED <<people, cycles, txs, dinners, item, syncs, issued>>
  /\ hist' = Quiet

\* ------------------------------------------------------------------------
\* routes/transactions.js: the CIBC CSV parser
\* ------------------------------------------------------------------------

\* quotedField that takes every quote for the closing one
RECURSIVE quotedFieldNoEscape(_, _, _)
quotedFieldNoEscape(line, i, field) ==
  IF i > Len(line) THEN [field |-> field, i |-> i]
  ELSE IF line[i] = "\"" THEN [field |-> field, i |-> i + 1]
  ELSE quotedFieldNoEscape(line, i + 1, Append(field, line[i]))

\* the inner loop of parseCsvLine: a quoted field from position i (after the
\* opening quote); the field and the position after its closing quote
RECURSIVE quotedField(_, _, _)
quotedField(line, i, field) ==
  IF i > Len(line) THEN [field |-> field, i |-> i]
  ELSE IF line[i] = "\"" /\ i + 1 <= Len(line) /\ line[i + 1] = "\""
  THEN quotedField(line, i + 2, Append(field, "\""))
  ELSE IF line[i] = "\"" THEN [field |-> field, i |-> i + 1]
  ELSE quotedField(line, i + 1, Append(field, line[i]))

\* the position of the first comma at or after i, or Len(line) + 1
RECURSIVE commaFrom(_, _)
commaFrom(line, i) ==
  IF i > Len(line) \/ line[i] = "," THEN i ELSE commaFrom(line, i + 1)

\* the outer loop of parseCsvLine from position i
RECURSIVE fieldsFrom(_, _, _)
fieldsFrom(line, i, fields) ==
  IF i > Len(line) THEN fields
  ELSE IF line[i] = "\""
  THEN LET q == quotedField(line, i + 1, <<>>)
           j == IF q.i <= Len(line) /\ line[q.i] = "," THEN q.i + 1 ELSE q.i
       IN fieldsFrom(line, j, Append(fields, q.field))
  ELSE LET e == commaFrom(line, i)
           j == IF e <= Len(line) THEN e + 1 ELSE e
       IN fieldsFrom(line, j, Append(fields, SubSeq(line, i, e - 1)))

parseCsvLine(line) == fieldsFrom(line, 1, <<>>)

\* the longest prefix of digits
RECURSIVE digitPrefix(_)
digitPrefix(s) ==
  IF s # <<>> /\ IsDigit(Head(s)) THEN <<Head(s)>> \o digitPrefix(Tail(s)) ELSE <<>>

\* parseFloat of a trimmed string, in mills: an optional sign, digits, an
\* optional point and digits, whatever follows being ignored; digits past
\* the third decimal are dropped and exponents are not read
parseFloat(s) ==
  LET neg      == s # <<>> /\ Head(s) = "-"
      body     == IF s # <<>> /\ Head(s) \in {"-", "+"} THEN Tail(s) ELSE s
      int      == digitPrefix(body)
      rest     == Drop(body, Len(int))
      frac     == IF rest # <<>> /\ Head(rest) = "." THEN digitPrefix(Tail(rest)) ELSE <<>>
      frac3    == Take(frac \o <<"0", "0", "0">>, 3)
      mills    == DigitsVal(int) * 1000 + DigitsVal(frac3)
  IN IF int = <<>> /\ frac = <<>> THEN NotANumber
     ELSE Num(IF neg THEN 0 - mills ELSE mills)

\* /^\d{4}-\d{2}-\d{2}/ : the string starts with a date
StartsWithDate(s) ==
  /\ Len(s) >= 10
  /\ \A k \in {1, 2, 3, 4, 6, 7, 9, 10} : IsDigit(s[k])
  /\ s[5] = "-" /\ s[8] = "-"

NoRow == [ok |-> FALSE, date |-> <<>>, merchant |-> <<>>, amount |-> 0]

\* parseCibcRow: null (NoRow), or the date, merchant and amount of the row
parseCibcRow(line) ==
  LET fields == parseCsvLine(line)
  IN IF Len(fields) < 3 THEN NoRow
     ELSE LET date     == Trim(fields[1])
              merchant == Trim(fields[2])
              debit    == Trim(fields[3])
              amount   == parseFloat(debit)
          IN IF ~(StartsWithDate(date) /\ Len(date) = 10) THEN NoRow
             ELSE IF merchant = <<>> THEN NoRow
             ELSE IF debit = <<>> \/ debit = <<"0">> THEN NoRow
             ELSE IF IsNaN(amount) \/ amount.v <= 0 THEN NoRow
             ELSE [ok |-> TRUE, date |-> date, merchant |-> merchant, amount |-> amount.v]

\* Number.prototype.toFixed(2) of a positive amount
toFixed2(mills) ==
  LET cents == RoundDiv(mills, 10)
  IN NatChars(cents \div 100) \o <<".">> \o Pad2(cents % 100)

\* `csv:${date}:${merchant}:${amount.toFixed(2)}`
fingerprint(date, merchant, amount) ==
  <<"c", "s", "v", ":">> \o date \o <<":">> \o merchant \o <<":">> \o toFixed2(amount)

\* csv.split(/\r?\n/).map((l) => l.trim()).filter(Boolean)
csvLines(csv) ==
  LET raw == SplitOn(csv, "\n", <<>>, <<>>)
  IN SelectSeq([k \in 1..Len(raw) |-> Trim(raw[k])], LAMBDA l : l # <<>>)

\* tx.byPlaidId: the stored transactions that carry a fingerprint (in any cycle)
txByPlaidId(rows, plaid_id) ==
  {t \in rows : ~t.plaid_id.null /\ t.plaid_id.val = plaid_id}

\* the longest merchant import-csv stores
MerchantMax == 200

\* importLine without the lookup of the fingerprint
importLineNoDedupe(st, cid, line) ==
  IF ~StartsWithDate(line) THEN st
  ELSE LET parsed == parseCibcRow(line)
           fp     == fingerprint(parsed.date, parsed.merchant, parsed.amount)
       IN IF ~parsed.ok THEN [st EXCEPT !.errors = @ + 1]
          ELSE [st EXCEPT
                  !.txs = txInsert(@, [id       |-> st.next + 1,
                                       cycle_id |-> cid,
                                       plaid_id |-> NotNull(fp),
                                       date     |-> parsed.date,
                                       merchant |-> Take(parsed.merchant, MerchantMax),
                                       amount   |-> Num(parsed.amount),
                                       source   |-> "csv",
                                       verified |-> FALSE]),
                  !.next = @ + 1,
                  !.added = @ + 1]

\* importLine that passes over a row parseCibcRow rejects without counting it
importLineSilentErrors(st, cid, line) ==
  IF ~StartsWithDate(line) \/ ~parseCibcRow(line).ok THEN st
  ELSE LET parsed == parseCibcRow(line)
           fp     == fingerprint(parsed.date, parsed.merchant, parsed.amount)
       IN IF txByPlaidId(st.txs, fp) # {} THEN [st EXCEPT !.skipped = @ + 1]
          ELSE importLineNoDedupe(st, cid, line)

\* one turn of the loop of import-csv on the state st of the batch
importLine(st, cid, line) ==
  IF ~StartsWithDate(line) THEN st
  ELSE LET parsed == parseCibcRow(line)
           fp     == fingerprint(parsed.date, parsed.merchant, parsed.amount)
       IN IF ~parsed.ok THEN [st EXCEPT !.errors = @ + 1]
          ELSE IF txByPlaidId(st.txs, fp) # {} THEN [st EXCEPT !.skipped = @ + 1]
          ELSE [st EXCEPT
                  !.txs = txInsert(@, [id       |-> st.next + 1,
                                       cycle_id |-> cid,
                                       plaid_id |-> NotNull(fp),
                                       date     |-> parsed.date,
                                       merchant |-> Take(parsed.merchant, MerchantMax),
                                       amount   |-> Num(parsed.amount),
                                       source   |-> "csv",
                                       verified |-> FALSE]),
                  !.next = @ + 1,
                  !.added = @ + 1]

RECURSIVE importLines(_, _, _)
importLines(st, cid, lines) ==
  IF lines = <<>> THEN st
  ELSE importLines(importLine(st, cid, Head(lines)), cid, Tail(lines))

\* ------------------------------------------------------------------------
\* routes/transactions.js: the handlers
\* ------------------------------------------------------------------------

\* POST /api/cycles/:cycleId/transactions  { date, merchant, amount, source, notes }
AddTx(cycleId, merchant, amount) ==
  /\ steps < MaxSteps
  /\ steps' = steps + 1
  /\ IF merchant = <<>> \/ Falsy(amount)
     THEN /\ res' = Response("addTx", cycleId, 400)
          /\ UNCHANGED <<txs, issued>>
     ELSE IF cyclesById(cycleId) = {}
     THEN /\ res' = Response("addTx", cycleId, 404)
          /\ UNCHANGED <<txs, issued>>
     ELSE IF isFinalized(cycleId)
     THEN /\ res' = Response("addTx", cycleId, 409)
          /\ UNCHANGED <<txs, issued>>
     ELSE /\ txs' = txInsert(txs, [id       |-> issued.tx + 1,
                                   cycle_id |-> cycleId,
                                   plaid_id |-> Null,
                                   date     |-> Today,
                                   merchant |-> Trim(merchant),
                                   amount   |-> IF IsNaN(amount) THEN NotANumber
                                                ELSE Num(Abs(amount.v)),
                                   source   |-> "receipt",
                                   verified |-> FALSE])
          /\ issued' = [issued EXCEPT !.tx = @ + 1]
          /\ res' = Response("addTx", cycleId, 201)
  /\ UNCHANGED <<people, cycles, dinners, receipts, item, syncs>>
  /\ hist' = Quiet

\* PATCH /api/cycles/:cycleId/transactions/:txId  { verified }
PatchTx(cycleId, txId, verified) ==
  /\ steps < MaxSteps
  /\ steps' = steps + 1
  /\ IF verified = "undefined"
     THEN /\ res' = Response("patchTx", cycleId, 400)
          /\ UNCHANGED txs
     ELSE /\ txs' = txSetVerified(txId, verified = "true")
          /\ res' = Response("patchTx", cycleId, 200)
  /\ UNCHANGED <<people, cycles, dinners, receipts, item, syncs, issued>>
  /\ hist' = Quiet

\* DELETE /api/cycles/:cycleId/transactions/:txId
DeleteTx(cycleId, txId) ==
  /\ steps < MaxSteps
  /\ steps' = steps + 1
  /\ txs' = txDelete(txId)
  /\ res' = Response("deleteTx", cycleId, 200)
  /\ UNCHANGED <<people, cycles, dinners, receipts, item, syncs, issued>>
  /\ hist' = Quiet

\* POST /api/cycles/:cycleId/transactions/import-csv  { csv }
ImportCsv(cycleId, csv) ==
  /\ steps < MaxSteps
  /\ steps' = steps + 1
  /\ IF csv = <<>>
     THEN /\ res' = Response("importCsv", cycleId, 400)
          /\ UNCHANGED <<txs, issued>>
     ELSE IF cyclesById(cycleId) = {}
     THEN /\ res' = Response("importCsv", cycleId, 404)
          /\ UNCHANGED <<txs, issued>>
     ELSE IF isFinalized(cycleId)
     THEN /\ res' = Response("importCsv", cycleId, 409)
          /\ UNCHANGED <<txs, issued>>
     ELSE LET st == importLines([txs |-> txs, next |-> issued.tx,
                                 added |-> 0, skipped |-> 0, errors |-> 0],
                                cycleId, csvLines(csv))
          IN /\ txs' = st.txs
             /\ issued' = [issued EXCEPT !.tx = st.next]
             /\ res' = Batch("importCsv", cycleId, 200,
                             st.added, st.skipped, st.errors, csv)
  /\ UNCHANGED <<people, cycles, dinners, receipts, item, syncs>>
  /\ hist' = [hist EXCEPT !.repeat = FALSE, !.reimport =
                 /\ res'.status = 200
                 /\ res.op = "importCsv" /\ res.status = 200
                 /\ res.cid = cycleId /\ res.csv = csv]

\* ------------------------------------------------------------------------
\* routes/plaid.js
\* ------------------------------------------------------------------------

\* process.env.GROCERY_KEYWORDS
GroceryKeywordsEnv ==
  <<"c", "o", "s", "t", "c", "o", ",", " ", ",", "S", "o", "b", "e", "y", "s">>

\* the keywords of isGrocery: split on commas, trimmed, lower-cased
keywords(env) ==
  LET parts == SplitOn(env, ",", <<>>, <<>>)
  IN [k \in 1..Len(parts) |-> ToLowerCase(Trim(parts[k]))]

\* transaction.merchant_name || transaction.name (either may be missing)
MerchantOf(t) ==
  IF ~t.merchant_name.null /\ t.merchant_name.val # <<>> THEN t.merchant_name ELSE t.name

\* isGrocery without the test kw && of the keyword
isGroceryAnyKeyword(env, t) ==
  LET m    == MerchantOf(t)
      name == ToLowerCase(IF m.null THEN <<>> ELSE m.val)
      kws  == keywords(env)
      cats == [k \in 1..Len(t.detailed \o t.category) |->
                 ToLowerCase((t.detailed \o t.category)[k])]
  IN \/ \E k \in 1..Len(kws) : Includes(name, kws[k])
     \/ \E k \in 1..Len(cats) :
          \/ Includes(cats[k], <<"g", "r", "o", "c", "e", "r", "i", "e", "s">>)
          \/ Includes(cats[k], <<"s", "u", "p", "e", "r", "m", "a", "r", "k", "e", "t">>)
          \/ Includes(cats[k], <<"f", "o", "o", "d", " ", "a", "n", "d", " ",
                                 "d", "r", "i", "n", "k">>)

\* isGrocery when process.env.GROCERY_KEYWORDS is env
isGroceryUnder(env, t) ==
  LET m    == MerchantOf(t)
      name == ToLowerCase(IF m.null THEN <<>> ELSE m.val)
      kws  == keywords(env)
      cats == [k \in 1..Len(t.detailed \o t.category) |->
                 ToLowerCase((t.detailed \o t.category)[k])]
  IN \/ \E k \in 1..Len(kws) : kws[k] # <<>> /\ Includes(name, kws[k])
     \/ \E k \in 1..Len(cats) :
          \/ Includes(cats[k], <<"g", "r", "o", "c", "e", "r", "i", "e", "s">>)
          \/ Includes(cats[k], <<"s", "u", "p", "e", "r", "m", "a", "r", "k", "e", "t">>)
          \/ Includes(cats[k], <<"f", "o", "o", "d", " ", "a", "n", "d", " ",
                                 "d", "r", "i", "n", "k">>)

isGrocery(t) == isGroceryUnder(GroceryKeywordsEnv, t)

\* syncRecord without the lookup of the transaction id
syncRecordNoDedupe(st, cid, t) ==
  LET amount == Abs(t.amount)
      m      == MerchantOf(t)
  IN IF amount <= 0 THEN [st EXCEPT !.skipped = @ + 1]
     ELSE [st EXCEPT
             !.txs = IF m.null THEN @
                     ELSE txInsert(@, [id       |-> st.next + 1,
                                       cycle_id |-> cid,
                                       plaid_id |-> NotNull(t.transaction_id),
                                       date     |-> t.date,
                                       merchant |-> m.val,
                                       amount   |-> Num(amount),
                                       source   |-> "visa",
                                       verified |-> FALSE]),
             !.next = @ + 1,
             !.added = @ + 1]

\* syncRecord that passes over a stored transaction id without counting it
syncRecordSilentSkip(st, cid, t) ==
  IF Abs(t.amount) > 0 /\ txByPlaidId(st.txs, t.transaction_id) # {} THEN st
  ELSE syncRecordNoDedupe(st, cid, t)

\* one turn of the loop of POST /sync/:cycleId on the state st of the batch
syncRecord(st, cid, t) ==
  LET amount == Abs(t.amount)
      m      == MerchantOf(t)
  IN IF amount <= 0 THEN [st EXCEPT !.skipped = @ + 1]
     ELSE IF txByPlaidId(st.txs, t.transaction_id) # {} THEN [st EXCEPT !.skipped = @ + 1]
     ELSE [st EXCEPT
             \* a record with neither merchant_name nor name breaks NOT NULL
             \* and INSERT OR IGNORE skips it, yet it is counted as added
             !.txs = IF m.null THEN @
                     ELSE txInsert(@, [id       |-> st.next + 1,
                                       cycle_id |-> cid,
                                       plaid_id |-> NotNull(t.transaction_id),
                                       date     |-> t.date,
                                       merchant |-> m.val,
                                       amount   |-> Num(amount),
                                       source   |-> "visa",
                                       verified |-> FALSE]),
             !.next = @ + 1,
             !.added = @ + 1]

RECURSIVE syncRecords(_, _, _)
syncRecords(st, cid, ts) ==
  IF ts = <<>> THEN st
  ELSE syncRecords(syncRecord(st, cid, Head(ts)), cid, Tail(ts))

\* the records a bank feed is made of
FeedRecord(id, amount, merchant_name, name, category) ==
  [transaction_id |-> id, amount |-> amount, merchant_name |-> merchant_name,
   name |-> name, detailed |-> <<>>, category |-> category, date |-> Today]

RecCostco ==
  FeedRecord(<<"t", "1">>, 4200, NotNull(<<"C", "O", "S", "T", "C", "O", " ", "9">>),
             NotNull(<<"x">>), <<>>)

RecCafe ==
  FeedRecord(<<"t", "2">>, -1500, Null, NotNull(<<"C", "a", "f", "e">>),
             <<<<"F", "o", "o", "d", " ", "a", "n", "d", " ", "D", "r", "i", "n", "k">>>>)

RecDiner ==
  FeedRecord(<<"t", "3">>, 900, Null, NotNull(<<"D", "i", "n", "e", "r">>),
             <<<<"R", "e", "s", "t", "a", "u", "r", "a", "n", "t", "s">>>>)

RecZero ==
  FeedRecord(<<"t", "4">>, 0, Null, NotNull(<<"S", "o", "b", "e", "y", "s">>), <<>>)

\* the feeds plaidClient.transactionsGet answers with
FeedSamples == {<<RecCostco, RecDiner>>, <<RecCafe, RecCostco, RecZero>>}

\* POST /api/plaid/exchange: a bank item is stored once Plaid has exchanged the token
Exchange(ok) ==
  /\ steps < MaxSteps
  /\ steps' = steps + 1
  /\ item' = (item \/ ok)
  /\ res' = Response("exchange", 0, IF ok THEN 200 ELSE 500)
  /\ UNCHANGED <<people, cycles, txs, dinners, receipts, syncs, issued>>
  /\ hist' = Quiet

\* POST /api/plaid/sync/:cycleId up to `await plaidClient.transactionsGet`
SyncStart(cycleId) ==
  /\ steps < MaxSteps
  /\ steps' = steps + 1
  /\ IF cyclesById(cycleId) = {}
     THEN /\ res' = Response("sync", cycleId, 404)
          /\ UNCHANGED syncs
     ELSE IF ~item
     THEN /\ res' = Response("sync", cycleId, 400)
          /\ UNCHANGED syncs
     ELSE /\ syncs' = Append(syncs, cycleId)
          /\ UNCHANGED res
  /\ UNCHANGED <<people, cycles, txs, dinners, receipts, item, issued>>
  /\ hist' = Quiet

RemoveAt(s, k) == SubSeq(s, 1, k - 1) \o SubSeq(s, k + 1, Len(s))

\* POST /api/plaid/sync/:cycleId from the answer of transactionsGet on
SyncFinish(k, feed) ==
  /\ k \in 1..Len(syncs)
  /\ LET cid == syncs[k]
         groceryTxs == SelectSeq(feed, isGrocery)
         st == syncRecords([txs |-> txs, next |-> issued.tx,
                            added |-> 0, skipped |-> 0, errors |-> 0],
                           cid, groceryTxs)
     IN /\ txs' = st.txs
        /\ issued' = [issued EXCEPT !.tx = st.next]
        /\ res' = Batch("sync", cid, 200, st.added, st.skipped, 0, <<>>)
  /\ syncs' = RemoveAt(syncs, k)
  /\ UNCHANGED <<people, cycles, dinners, receipts, item, steps>>
  /\ hist' = [Quiet EXCEPT !.repeat =
                 Len(syncs) > 1 \/ (hist.repeat /\ res.op = "sync" /\ res.status = 200)]

\* SyncFail with a catch that answers an empty batch in the place of the error
SyncFailSwallowed(k) ==
  /\ k \in 1..Len(syncs)
  /\ res' = Batch("sync", syncs[k], 200, 0, 0, 0, <<>>)
  /\ syncs' = RemoveAt(syncs, k)
  /\ UNCHANGED <<people, cycles, txs, dinners, receipts, item, issued, steps>>
  /\ hist' = Quiet

\* POST /api/plaid/sync/:cycleId when transactionsGet throws
SyncFail(k) ==
  /\ k \in 1..Len(syncs)
  /\ res' = Response("sync", syncs[k], 500)
  /\ syncs' = RemoveAt(syncs, k)
  /\ UNCHANGED <<people, cycles, txs, dinners, receipts, item, issued, steps>>
  /\ hist' = Quiet

\* ------------------------------------------------------------------------
\* db/seed.js
\* ------------------------------------------------------------------------

SeedNames ==
  <<<<"A", "l", "e", "x">>, <<"J", "o", "r", "d", "a", "n">>,
    <<"T", "a", "y", "l", "o", "r">>>>

\* sampleTx: the amounts in mills
SeedAmounts == <<127430, 89120, 213550, 54200, 102870, 78340>>

SeedDates ==
  <<<<"2", "0", "2", "5", "-", "0", "1", "-", "0", "4">>,
    <<"2", "0", "2", "5", "-", "0", "1", "-", "0", "7">>,
    <<"2", "0", "2", "5", "-", "0", "1", "-", "1", "1">>,
    <<"2", "0", "2", "5", "-", "0", "1", "-", "1", "4">>,
    <<"2", "0", "2", "5", "-", "0", "1", "-", "1", "9">>,
    <<"2", "0", "2", "5", "-", "0", "1", "-", "2", "3">>>>

SeedMerchants ==
  <<<<"L", "o", "b", "l", "a", "w", "s">>,
    <<"W", "h", "o", "l", "e", " ", "F", "o", "o", "d", "s">>,
    <<"C", "o", "s", "t", "c", "o">>,
    <<"F", "r", "e", "s", "h", "C", "o">>,
    <<"M", "e", "t", "r", "o">>,
    <<"N", "o", "F", "r", "i", "l", "l", "s">>>>

SeedSources == <<"visa", "visa", "visa", "visa", "visa", "receipt">>

\* dinnerCounts
SeedDinnerCounts == <<18, 14, 22>>

\* sampleReceipts: the amounts in mills of allPeople[0] and allPeople[1]
SeedReceipts == <<45000, 22500>>

SeedMonthKey == <<"2", "0", "2", "5", "-", "0", "1">>

\* the loop over peopleData: a name that exists already is skipped
RECURSIVE seedPeople(_, _)
seedPeople(ps, names) ==
  IF names = <<>> THEN ps
  ELSE IF \E p \in ps : p.name = Head(names) THEN seedPeople(ps, Tail(names))
  ELSE seedPeople(ps \cup {[id |-> NewId(ps), name |-> Head(names), active |-> TRUE]},
                  Tail(names))

\* allPeople.forEach((p, i) => dinners.upsert(... dinnerCounts[i] || 0 ...))
RECURSIVE seedDinners(_, _, _, _)
seedDinners(d, cid, ps, i) ==
  IF i > Len(ps) THEN d
  ELSE seedDinners(dinnersUpsert(d, cid, ps[i].id,
                                 IF i <= Len(SeedDinnerCounts) THEN SeedDinnerCounts[i] ELSE 0),
                   cid, ps, i + 1)

\* node db/seed.js
Seed ==
  /\ steps < MaxSteps
  /\ steps' = steps + 1
  /\ LET ps        == seedPeople(people, SeedNames)
         allPeople == OrderByName({p \in ps : p.active})
         cycleId   == NewId(cycles)
     IN /\ people' = ps
        /\ IF cyclesByMonthKey(SeedMonthKey) # {}
           THEN UNCHANGED <<cycles, txs, dinners, receipts, issued>>
           ELSE /\ cycles' = cycles \cup
                     {[id        |-> cycleId,
                       month_key |-> SeedMonthKey,
                       date_from |-> SeedMonthKey \o <<"-", "0", "1">>,
                       date_to   |-> SeedMonthKey \o <<"-", "3", "1">>,
                       finalized |-> FALSE]}
                /\ txs' = txs \cup
                     {[id       |-> issued.tx + k,
                       cycle_id |-> cycleId,
                       plaid_id |-> Null,
                       date     |-> SeedDates[k],
                       merchant |-> SeedMerchants[k],
                       amount   |-> SeedAmounts[k],
                       source   |-> SeedSources[k],
                       verified |-> FALSE] : k \in 1..Len(SeedAmounts)}
                /\ dinners' = seedDinners(dinners, cycleId, allPeople, 1)
                /\ receipts' = receipts \cup
                     {[id        |-> issued.receipt + k,
                       cycle_id  |-> cycleId,
                       person_id |-> allPeople[k].id,
                       amount    |-> SeedReceipts[k]] :
                        k \in {j \in 1..Len(SeedReceipts) : j <= Len(allPeople)}}
                /\ issued' = [tx      |-> issued.tx + Len(SeedAmounts),
                              receipt |-> issued.receipt + Len(SeedReceipts)]
  /\ res' = Response("seed", 0, 0)
  /\ UNCHANGED <<item, syncs>>
  /\ hist' = Quiet

\* ------------------------------------------------------------------------
\* The system
\* ------------------------------------------------------------------------

\* CSV texts sent to import-csv
CsvDate == <<"2", "0", "2", "5", "-", "0", "1", "-", "0", "4">>

\* 2025-01-04,AB,5.20,,45
RowPlain == CsvDate \o <<",", "A", "B", ",", "5", ".", "2", "0", ",", ",", "4", "5">>

\* 2025-01-04,AB,5.204   (the same fingerprint as RowPlain, another amount)
RowMills == CsvDate \o <<",", "A", "B", ",", "5", ".", "2", "0", "4">>

\* 2025-01-04,"A, ""B""",7,,45
RowQuoted ==
  CsvDate \o <<",", "\"", "A", ",", " ", "\"", "\"", "B", "\"", "\"", "\"", ",", "7", ",", ",", "4", "5">>

\* 2025-01-04,AB,,5.20,45   (a credit)
RowCredit == CsvDate \o <<",", "A", "B", ",", ",", "5", ".", "2", "0", ",", "4", "5">>

\* Date,Vendor,Debit
RowHeader ==
  <<"D", "a", "t", "e", ",", "V", "e", "n", "d", "o", "r", ",", "D", "e", "b", "i", "t">>

CsvSamples ==
  {<<>>,
   RowHeader \o <<"\r", "\n">> \o RowPlain \o <<"\r", "\n">>,
   RowPlain \o <<"\n">> \o RowMills,
   RowQuoted \o <<"\n", "\n">> \o RowCredit}

Next ==
  \/ \E name \in NameSamples : AddPerson(name) /\ UNCHANGED probe
  \/ \E id \in PersonParams, name \in NameSamples : RenamePerson(id, name) /\ UNCHANGED probe
  \/ \E id \in PersonParams : DeactivatePerson(id) /\ UNCHANGED probe
  \/ \E mk \in MonthKeySamples : CreateCycle(mk) /\ UNCHANGED probe
  \/ \E id \in CycleIds : Finalize(id) /\ UNCHANGED probe
  \/ \E id \in CycleIds : Unfinalize(id) /\ UNCHANGED probe
  \/ \E id \in CycleIds, entries \in DinnerBodies : PutDinners(id, entries) /\ UNCHANGED probe
  \/ \E id \in CycleIds, p \in PersonIds, a \in ReceiptAmountSamples : AddReceipt(id, p, a) /\ UNCHANGED probe
  \/ \E id \in CycleIds, r \in ReceiptIds : DeleteReceipt(id, r) /\ UNCHANGED probe
  \/ \E id \in CycleIds, m \in MerchantSamples, a \in TxAmountSamples : AddTx(id, m, a) /\ UNCHANGED probe
  \/ \E id \in CycleIds, t \in TxIds, v \in {"undefined", "true", "false"} : PatchTx(id, t, v) /\ UNCHANGED probe
  \/ \E id \in CycleIds, t \in TxIds : DeleteTx(id, t) /\ UNCHANGED probe
  \/ \E id \in CycleIds, csv \in CsvSamples : ImportCsv(id, csv) /\ UNCHANGED probe
  \/ \E ok \in BOOLEAN : Exchange(ok) /\ UNCHANGED probe
  \/ \E id \in CycleIds : SyncStart(id) /\ UNCHANGED probe
  \/ \E k \in 1..Len(syncs), feed \in FeedSamples : SyncFinish(k, feed) /\ UNCHANGED probe
  \/ \E k \in 1..Len(syncs) : SyncFail(k) /\ UNCHANGED probe
  \/ Seed /\ UNCHANGED probe

Spec == Init /\ [][Next]_vars

\* ------------------------------------------------------------------------
\* Properties
\* ------------------------------------------------------------------------

\* n is num / den (den > 0) rounded to the nearest integer, a half rounded up
RoundsTo(n, num, den) == (2 * n - 1) * den <= 2 * num /\ 2 * num < (2 * n + 1) * den

\* the sum of the weights of a cycle, and what a person paid in it (mills)
WeightOf(cid) ==
  LET ds == dinnersByCycle(cid) IN SumSeq([k \in 1..Len(ds) |-> ds[k].dinner_count])

PaymentsOf(cid, pid) ==
  SumAmount({r \in receipts : r.cycle_id = cid /\ r.person_id = pid})

\* C1: the total computeBill returns for a cycle is the sum of the cycle's
\* transaction amounts plus the sum of its personal payment amounts.
C1_TotalIsSpendPlusPayments ==
  \A c \in cycles :
    computeBill(c.id).total =
      SumAmount({t \in txs : t.cycle_id = c.id})
        + SumAmount({r \in receipts : r.cycle_id = c.id})

\* C2: for a cycle with totalWeight > 0 the bill has one row per entry of the
\* cycle, in which the share is weight / totalWeight as a percentage with two
\* decimals, owed is total * weight / totalWeight, paid is the sum of the
\* person's payments and balance is owed - paid, each rounded to the cent;
\* weights 18 of 54, total 665.51 and 45.00 paid give 33.33 %, 221.84, 176.84.
C2_RowsAreProportionalShares ==
  \A c \in cycles :
    LET bill == computeBill(c.id)
        ds   == dinnersByCycle(c.id)
        tw   == WeightOf(c.id)
    IN tw > 0 =>
         /\ Len(bill.billRows) = Len(ds)
         /\ \A k \in 1..Len(ds) :
              LET row  == bill.billRows[k]
                  w    == ds[k].dinner_count
                  paid == PaymentsOf(c.id, ds[k].person_id)
              IN /\ row.person_id = ds[k].person_id
                 /\ RoundsTo(row.pct, 10000 * w, tw)
                 /\ RoundsTo(row.owes, bill.total * w, 10 * tw)
                 /\ RoundsTo(row.paid, paid, 10)
                 /\ RoundsTo(row.balance, bill.total * w - paid * tw, 10 * tw)
                 /\ (w = 18 /\ tw = 54 /\ bill.total = 665510 /\ paid = 45000) =>
                      (row.pct = 3333 /\ row.owes = 22184 /\ row.balance = 17684)

\* a cycle billed with the weights 18, 14, 22, a total of 665.51 and 45.00 paid
C2_Witness ==
  \E c \in cycles :
    LET bill == computeBill(c.id)
    IN /\ bill.totalDinners = 54 /\ bill.total = 665510
       /\ \E k \in 1..Len(bill.billRows) :
            /\ bill.billRows[k].dinner_count = 18
            /\ bill.billRows[k].paid = 4500
            /\ bill.billRows[k].owes = 22184
       /\ \E k \in 1..Len(bill.billRows) : bill.billRows[k].dinner_count = 14
       /\ \E k \in 1..Len(bill.billRows) : bill.billRows[k].dinner_count = 22

\* C3: for a cycle whose weights sum to zero (a cycle without entries, and an
\* id that names no cycle, included) every row of the bill has share 0 and
\* owed 0.
C3_ZeroWeightOwesNothing ==
  \A cid \in 1..(Cardinality(cycles) + 1) :
    WeightOf(cid) = 0 =>
      LET bill == computeBill(cid)
      IN /\ bill.totalDinners = 0
         /\ Len(bill.billRows) = Len(dinnersByCycle(cid))
         /\ \A k \in 1..Len(bill.billRows) :
              bill.billRows[k].pct = 0 /\ bill.billRows[k].owes = 0

\* a cycle with spend and with entries, all of weight zero
C3_Witness ==
  \E c \in cycles :
    /\ WeightOf(c.id) = 0
    /\ Len(dinnersByCycle(c.id)) >= 1
    /\ computeBill(c.id).total > 0

\* a body of POST transactions that passes the validation of the handler
ValidTx(m, a) == m # <<>> /\ ~Falsy(a)

C5_UnfinalizeRestoresAdd ==
  [][\A id \in CycleIds :
       /\ (Unfinalize(id) /\ Finalized(id)) =>
            /\ res'.status = 200
            /\ \A c \in cycles' : c.id = id => ~c.finalized
            /\ id \in hist'.reopened
       /\ \A m \in MerchantSamples, a \in TxAmountSamples :
            (AddTx(id, m, a) /\ id \in hist.reopened /\ ValidTx(m, a)) =>
              /\ res'.status = 201
              /\ \E t \in txs' \ txs :
                   /\ t.cycle_id = id /\ t.merchant = Trim(m) /\ t.amount = Abs(a.v)
                   /\ txs' = txs \cup {t}]_vars

\* a manual add accepted by a cycle that was finalized and then unfinalized
C5_Witness ==
  /\ res.op = "addTx" /\ res.status = 201
  /\ res.cid \in hist.reopened
  /\ txByCycle(res.cid) # {}

\* the entries and the payments a ledger holds for a cycle
EntriesOf(d, cid) == SelectSeq(d, LAMBDA e : e.cycle_id = cid)

PaymentsIn(rs, cid) == {r \in rs : r.cycle_id = cid}

\* C6: while a cycle is finalized, a bulk dinner-count upsert, a payment add
\* and a payment delete sent to it are answered 409, and no step changes the
\* entries or the payments of the cycle.
C6_FinalizedFreezesEntriesAndPayments ==
  [][\A id \in CycleIds :
       Finalized(id) =>
         /\ \A entries \in DinnerBodies :
              PutDinners(id, entries) => res'.status = 409
         /\ \A p \in PersonIds, a \in ReceiptAmountSamples :
              AddReceipt(id, p, a) => res'.status = 409
         /\ \A r \in ReceiptIds :
              DeleteReceipt(id, r) => res'.status = 409
         /\ EntriesOf(dinners', id) = EntriesOf(dinners, id)
         /\ PaymentsIn(receipts', id) = PaymentsIn(receipts, id)]_vars

\* C7: a transaction of a finalized cycle is left as it is by every step (it
\* is still stored, with the same verified flag), and a verify-toggle and a
\* delete request for it are answered 409.
C7_FinalizedFreezesTransactions ==
  [][\A t \in txs :
       Finalized(t.cycle_id) =>
         /\ t \in txs'
         /\ \A id \in CycleIds, v \in {"true", "false"} :
              PatchTx(id, t.id, v) => res'.status = 409
         /\ \A id \in CycleIds :
              DeleteTx(id, t.id) => res'.status = 409]_vars

\* C8: a bank sync whose cycle is finalized when the feed has been fetched is
\* answered 409 and adds no transaction to the cycle, whatever the feed holds.
C8_FinalizedRejectsSync ==
  [][\A k \in 1..Len(syncs), feed \in FeedSamples :
       (SyncFinish(k, feed) /\ Finalized(syncs[k])) =>
         /\ res'.status = 409
         /\ {t \in txs' : t.cycle_id = syncs[k]} = txByCycle(syncs[k])]_vars

\* the fingerprints a set of transactions carries
StoredFingerprints(rows) == {t.plaid_id.val : t \in {u \in rows : ~u.plaid_id.null}}

\* the fingerprints of the rows of a CSV text that parse, in the order of the text
CsvFingerprints(csv) ==
  LET ls   == SelectSeq(csvLines(csv),
                        LAMBDA l : StartsWithDate(l) /\ parseCibcRow(l).ok)
  IN [k \in 1..Len(ls) |->
        LET parsed == parseCibcRow(ls[k])
        IN fingerprint(parsed.date, parsed.merchant, parsed.amount)]

\* the positions of fps whose fingerprint is stored, or stands earlier in fps
Repeats(fps, rows) ==
  {k \in 1..Len(fps) :
     fps[k] \in StoredFingerprints(rows) \/ \E j \in 1..(k - 1) : fps[j] = fps[k]}

\* what a batch of fingerprints does to the ledger and to its counters
AtMostOnce(fps, cid, extraSkips) ==
  LET fresh == txs' \ txs
  IN /\ txs \subseteq txs'
     /\ res'.skipped = Cardinality(Repeats(fps, txs)) + extraSkips
     /\ res'.added = Len(fps) - Cardinality(Repeats(fps, txs))
     /\ Cardinality(fresh) = res'.added
     /\ \A t \in fresh : t.cycle_id = cid /\ ~t.plaid_id.null
     /\ StoredFingerprints(fresh) =
          {fps[k] : k \in 1..Len(fps)} \ StoredFingerprints(txs)

\* the transactions of the ledger carry pairwise distinct fingerprints
UniqueFingerprints ==
  \A t, u \in txs :
    (~t.plaid_id.null /\ ~u.plaid_id.null /\ t.plaid_id.val = u.plaid_id.val) => t = u

\* C9: in every state no two stored transactions, of one cycle or of two,
\* carry the same non-null fingerprint; a CSV import and a bank sync insert one
\* transaction for each fingerprint of the batch that is stored nowhere, and
\* every other row or record is not inserted and is counted as skipped.
C9_AtMostOncePerFingerprint ==
  /\ []UniqueFingerprints
  /\ [][/\ \A id \in CycleIds, csv \in CsvSamples :
             (res'.op = "importCsv" /\ res'.status = 200 /\ ImportCsv(id, csv)) =>
               AtMostOnce(CsvFingerprints(csv), id, 0)
        /\ \A k \in 1..Len(syncs), feed \in FeedSamples :
             SyncFinish(k, feed) =>
               LET grocery == SelectSeq(feed, isGrocery)
                   charged == SelectSeq(grocery, LAMBDA t : Abs(t.amount) > 0)
               IN AtMostOnce([j \in 1..Len(charged) |-> charged[j].transaction_id],
                             syncs[k], Len(grocery) - Len(charged))]_vars

\* an import that skipped a row whose fingerprint another cycle holds
C9_Witness ==
  /\ res.op = "importCsv" /\ res.status = 200 /\ res.skipped > 0
  /\ \E t \in txs :
       /\ t.cycle_id # res.cid /\ ~t.plaid_id.null
       /\ \E k \in 1..Len(CsvFingerprints(res.csv)) :
            CsvFingerprints(res.csv)[k] = t.plaid_id.val
  /\ \A t \in txByCycle(res.cid) :
       \A k \in 1..Len(CsvFingerprints(res.csv)) :
         t.plaid_id.null \/ CsvFingerprints(res.csv)[k] # t.plaid_id.val

\* C10 as claimed: the second of two successive imports of one text into one
\* open cycle adds nothing, skips as many rows as the first added and leaves
\* the ledger as the first left it.
C10_ReimportSkipsWhatWasAdded ==
  [][\A id \in CycleIds, csv \in CsvSamples :
       (hist'.reimport /\ ImportCsv(id, csv)) =>
         /\ res'.added = 0
         /\ res'.skipped = res.added
         /\ txs' = txs]_vars

\* C10 amended: the second of two successive imports of one text into one open
\* cycle adds nothing, skips as many rows as the first added and skipped
\* together, counts the errors of the first and leaves the ledger as the
\* first left it.
C10_ReimportSkipsEveryRow ==
  [][\A id \in CycleIds, csv \in CsvSamples :
       (hist'.reimport /\ ImportCsv(id, csv)) =>
         /\ res'.added = 0
         /\ res'.skipped = res.added + res.skipped
         /\ res'.errors = res.errors
         /\ txs' = txs /\ issued' = issued]_vars

\* a second import in a row that skipped the rows the first had added
C10_Witness ==
  /\ hist.reimport
  /\ res.op = "importCsv" /\ res.status = 200
  /\ res.added = 0 /\ res.skipped > 0
  /\ txByCycle(res.cid) # {}

\* C11: a bank sync whose fetch fails is answered with an error (500) and
\* merges nothing: the stored transactions are those stored before the answer.
C11_FailedFetchMergesNothing ==
  [][\A k \in 1..Len(syncs) :
       SyncFail(k) =>
         /\ res'.status = 500 /\ res'.cid = syncs[k]
         /\ txs' = txs /\ issued' = issued]_vars

\* a sync answered 500 for a cycle that holds transactions, none of them synced
C11_Witness ==
  /\ res.op = "sync" /\ res.status = 500
  /\ txByCycle(res.cid) # {}
  /\ \A t \in txs : t.source # "visa"

\* no two cycles have the same month key
UniqueMonthKey ==
  \A c, d \in cycles : c.month_key = d.month_key => c = d

\* C12: in every state there is at most one cycle per month key, and a
\* create-cycle request for a month key that has a cycle is answered 409 and
\* changes neither the cycles nor any entry.
C12_OneCyclePerMonthKey ==
  /\ []UniqueMonthKey
  /\ [][\A mk \in MonthKeySamples :
          (CreateCycle(mk) /\ \E c \in cycles : c.month_key = mk) =>
            /\ res'.status = 409
            /\ cycles' = cycles /\ dinners' = dinners]_vars

\* a create-cycle request refused with 409 while cycles and entries are stored
C12_Witness ==
  /\ res.op = "createCycle" /\ res.status = 409
  /\ cycles # {} /\ dinners # <<>>

\* C13: right after a create-cycle request answered 201 the new cycle is open
\* and holds exactly one entry, of weight 0, for each person active at that
\* moment and no entry for a deactivated person.
C13_NewCycleIsOpenAndPreSeeded ==
  [][\A mk \in MonthKeySamples :
       (CreateCycle(mk) /\ res'.status = 201) =>
         LET new     == cycles' \ cycles
             entries == EntriesOf(dinners', res'.cid)
         IN /\ Cardinality(new) = 1
            /\ \A c \in new : c.id = res'.cid /\ c.month_key = mk /\ ~c.finalized
            /\ \A p \in people :
                 LET own == {k \in 1..Len(entries) : entries[k].person_id = p.id}
                 IN /\ Cardinality(own) = (IF p.active THEN 1 ELSE 0)
                    /\ \A k \in own : entries[k].dinner_count = 0
            /\ \A k \in 1..Len(entries) :
                 \E p \in people : p.id = entries[k].person_id]_vars

\* a cycle just created while one person is active and another deactivated
C13_Witness ==
  /\ res.op = "createCycle" /\ res.status = 201
  /\ \E p \in people : p.active
  /\ \E p \in people : ~p.active
  /\ EntriesOf(dinners, res.cid) # <<>>

\* C14: a request to add a payment whose amount is missing, zero or negative
\* is answered 400 and stores nothing, and every stored payment has a
\* positive amount.
C14_PaymentsArePositive ==
  /\ [](\A r \in receipts : r.amount > 0)
  /\ [][\A id \in CycleIds, p \in PersonIds, a \in ReceiptAmountSamples :
          (AddReceipt(id, p, a) /\ (a.k = "none" \/ a.v <= 0)) =>
            /\ res'.status = 400
            /\ receipts' = receipts]_vars

\* the people with a row in the bill of a cycle
Billed(cid) ==
  LET rows == computeBill(cid).billRows
  IN {rows[k].person_id : k \in 1..Len(rows)}

\* C15: deactivating a person takes the person off the list of active people
\* and changes nothing else: the other people, the cycles, the transactions,
\* the entries and the payments are as before, and the person keeps a row in
\* the bill of every cycle in which the person has an entry.
C15_DeactivateKeepsHistory ==
  [][\A id \in PersonIds :
       DeactivatePerson(id) =>
         /\ res'.status = 200
         /\ \A k \in 1..Len(peopleAll') : peopleAll'[k].id # id
         /\ \A p \in people : p.id # id => p \in people'
         /\ {p.id : p \in people'} = {p.id : p \in people}
         /\ dinners' = dinners /\ receipts' = receipts
         /\ cycles' = cycles /\ txs' = txs
         /\ \A c \in cycles :
              (\E k \in 1..Len(dinners) :
                 dinners[k].cycle_id = c.id /\ dinners[k].person_id = id)
                => id \in Billed(c.id)']_vars

\* a person just deactivated who has an entry and a payment in a cycle
C15_Witness ==
  /\ res.op = "deactivatePerson"
  /\ \E p \in people :
       /\ ~p.active
       /\ \E k \in 1..Len(dinners) : dinners[k].person_id = p.id
       /\ \E r \in receipts : r.person_id = p.id
       /\ \E c \in cycles : p.id \in Billed(c.id)

\* C16: finalizing a finalized cycle and unfinalizing an open cycle are
\* answered 200 and leave the cycle, and every row of the ledger, as they were.
C16_FinalizeIsIdempotent ==
  [][\A id \in CycleIds :
       /\ (Finalize(id) /\ Finalized(id)) =>
            /\ res'.status = 200
            /\ cycles' = cycles /\ txs' = txs
            /\ dinners' = dinners /\ receipts' = receipts /\ people' = people
       /\ (Unfinalize(id) /\ \E c \in cycles : c.id = id /\ ~c.finalized) =>
            /\ res'.status = 200
            /\ cycles' = cycles /\ txs' = txs
            /\ dinners' = dinners /\ receipts' = receipts /\ people' = people]_vars

\* a finalized cycle with a transaction that has just been finalized again
C16_Witness ==
  /\ hist.repeat
  /\ res.op = "finalize" /\ res.status = 200
  /\ Finalized(res.cid)
  /\ txByCycle(res.cid) # {}

\* a row with a populated credit column and an empty debit column
IsCreditRow(line) ==
  LET fields == parseCsvLine(line)
  IN Len(fields) >= 4 /\ Trim(fields[3]) = <<>> /\ Trim(fields[4]) # <<>>

\* C17: an import inserts nothing for a date-leading row with a populated
\* credit column and an empty debit column and does not count it in errors:
\* errors counts the date-leading rows that do not parse and are no such row.
C17_CreditRowIsNotAnError ==
  [][\A id \in CycleIds, csv \in CsvSamples :
       (res'.op = "importCsv" /\ res'.status = 200 /\ ImportCsv(id, csv)) =>
         LET ls     == csvLines(csv)
             dated  == {k \in 1..Len(ls) : StartsWithDate(ls[k])}
             credit == {k \in dated : IsCreditRow(ls[k])}
             faulty == {k \in dated \ credit : ~parseCibcRow(ls[k]).ok}
         IN /\ res'.errors = Cardinality(faulty)
            /\ Cardinality(txs' \ txs) <= Cardinality(dated \ (credit \cup faulty))]_vars

\* C18: a verify-toggle and a delete naming the id of no transaction, and a
\* rename and a deactivate naming the id of no person, are answered 404 and
\* change neither the transactions nor the people.
C18_UnknownIdIsNotFound ==
  [][/\ \A id \in CycleIds, t \in TxIds :
          (\A u \in txs : u.id # t) =>
            /\ \A v \in {"true", "false"} :
                 PatchTx(id, t, v) => (res'.status = 404 /\ txs' = txs)
            /\ DeleteTx(id, t) => (res'.status = 404 /\ txs' = txs)
     /\ \A id \in PersonParams :
          (\A p \in people : p.id # id) =>
            /\ \A name \in NameSamples :
                 RenamePerson(id, name) => (res'.status = 404 /\ people' = people)
            /\ DeactivatePerson(id) => (res'.status = 404 /\ people' = people)]_vars

\* ------------------------------------------------------------------------
\* The functions of the routes, called on their own
\* ------------------------------------------------------------------------

\* values of process.env.GROCERY_KEYWORDS: unset or empty, blank, a list with
\* an empty entry, one keyword
GroceryEnvSamples ==
  {<<>>, <<" ">>, GroceryKeywordsEnv, <<"d", "i", "n", "e", "r">>}

MerchantNameSamples ==
  {Null, NotNull(<<>>), NotNull(<<"C", "O", "S", "T", "C", "O", " ", "9">>), NotNull(<<"C", "a", "f", "e">>)}

NameSamples2 ==
  {Null, NotNull(<<"s", "o", "b", "e", "y", "s", " ", "x">>), NotNull(<<"D", "i", "n", "e", "r">>)}

\* values of personal_finance_category.detailed
DetailedSamples == {<<>>, <<<<"F", "O", "O", "D", "_", "A", "N", "D", "_", "D", "R", "I", "N", "K", "_", "G", "R", "O", "C", "E", "R", "I", "E", "S">>>>}

LabelRestaurants == <<"R", "e", "s", "t", "a", "u", "r", "a", "n", "t", "s">>

LabelSupermarkets ==
  <<"S", "u", "p", "e", "r", "m", "a", "r", "k", "e", "t", "s", " ", "a", "n", "d", " ", "O", "t", "h", "e", "r", " ", "G", "r", "o", "c", "e", "r", "y", " ", "S", "t", "o", "r", "e", "s">>

LabelSupermarketsUpper ==
  <<"S", "U", "P", "E", "R", "M", "A", "R", "K", "E", "T", "S", " ", "A", "N", "D", " ", "O", "T", "H", "E", "R", " ", "G", "R", "O", "C", "E", "R", "Y", " ", "S", "T", "O", "R", "E", "S">>

LabelSupermarketsMixed ==
  <<"s", "U", "P", "E", "R", "M", "A", "R", "K", "E", "T", "S", " ", "a", "n", "d", " ", "o", "t", "h", "e", "r", " ", "G", "R", "O", "C", "E", "R", "Y", " ", "s", "t", "o", "r", "e", "s">>

\* values of the legacy category list
CategorySamples ==
  {<<>>, <<LabelRestaurants>>, <<LabelSupermarkets>>, <<LabelSupermarketsUpper>>,
   <<LabelSupermarketsMixed>>, <<<<"F", "o", "o", "d", " ", "a", "n", "d", " ", "D", "r", "i", "n", "k">>, LabelRestaurants>>}

\* the calls of isGrocery that are probed
GroceryProbes ==
  {[fn |-> "isGrocery", done |-> FALSE, env |-> env, grocery |-> FALSE,
    rec |-> [transaction_id |-> <<"t">>, amount |-> 1000, merchant_name |-> mn,
             name |-> n, detailed |-> d, category |-> c, date |-> Today]] :
     env \in GroceryEnvSamples, mn \in MerchantNameSamples, n \in NameSamples2,
     d \in DetailedSamples, c \in CategorySamples}

\* isGrocery(transaction) is called
Classify ==
  /\ probe.fn = "isGrocery" /\ ~probe.done
  /\ probe' = [probe EXCEPT !.done = TRUE,
                            !.grocery = isGroceryUnder(probe.env, probe.rec)]
  /\ UNCHANGED <<people, cycles, txs, dinners, receipts, item, syncs, issued, steps,
                 res, hist>>

\* the longest field of the CSV rows that are probed
MaxFieldLen == 2

\* a letter, the delimiter, the quote and a blank
FieldChars == {"A", ",", "\"", " "}

FieldSamples == UNION {[1..n -> FieldChars] : n \in 0..MaxFieldLen}

\* rows of one field and of two
RowSamples ==
  {<<f>> : f \in FieldSamples} \cup {<<f, g>> : f \in FieldSamples, g \in FieldSamples}

\* a field as a CSV writer puts it in a line: between quotes, its quotes
\* doubled, when it is empty or holds a delimiter or a quote
RECURSIVE Escaped(_)
Escaped(f) ==
  IF f = <<>> THEN <<>>
  ELSE (IF Head(f) = "\"" THEN <<"\"", "\"">> ELSE <<Head(f)>>) \o Escaped(Tail(f))

WrittenField(f) ==
  IF f = <<>> \/ \E k \in 1..Len(f) : f[k] \in {",", "\""}
  THEN <<"\"">> \o Escaped(f) \o <<"\"">>
  ELSE f

RECURSIVE WrittenRow(_)
WrittenRow(fs) ==
  IF Len(fs) = 1 THEN WrittenField(fs[1])
  ELSE WrittenField(Head(fs)) \o <<",">> \o WrittenRow(Tail(fs))

\* 2025-12-29,"PHARMASAVE 115 VICTORIA, BC",51.20,,4500********6473
RowPharmasave ==
  <<"2", "0", "2", "5", "-", "1", "2", "-", "2", "9", ",", "\"", "P", "H", "A", "R", "M", "A", "S", "A", "V", "E", " ", "1", "1", "5", " ", "V", "I", "C", "T", "O", "R", "I", "A", ",", " ", "B", "C", "\"", ",", "5", "1", ".", "2", "0", ",", ",", "4", "5", "0", "0", "*", "*", "*", "*", "*", "*", "*", "*", "6", "4", "7", "3">>

FieldsPharmasave ==
  <<<<"2", "0", "2", "5", "-", "1", "2", "-", "2", "9">>,
    <<"P", "H", "A", "R", "M", "A", "S", "A", "V", "E", " ", "1", "1", "5", " ", "V", "I", "C", "T", "O", "R", "I", "A", ",", " ", "B", "C">>,
    <<"5", "1", ".", "2", "0">>, <<>>,
    <<"4", "5", "0", "0", "*", "*", "*", "*", "*", "*", "*", "*", "6", "4", "7", "3">>>>

\* the fields of RowQuoted
FieldsQuoted ==
  <<CsvDate, <<"A", ",", " ", "\"", "B", "\"">>, <<"7">>, <<>>, <<"4", "5">>>>

\* the calls of parseCsvLine and parseCibcRow that are probed: a line, and
\* the fields it was written from
ParseProbes ==
  {[fn |-> "parseCibcRow", done |-> FALSE, line |-> WrittenRow(fs), from |-> fs,
    fields |-> <<>>, row |-> NoRow] : fs \in RowSamples}
  \cup {[fn |-> "parseCibcRow", done |-> FALSE, line |-> RowPharmasave,
          from |-> FieldsPharmasave, fields |-> <<>>, row |-> NoRow],
         [fn |-> "parseCibcRow", done |-> FALSE, line |-> RowQuoted,
          from |-> FieldsQuoted, fields |-> <<>>, row |-> NoRow]}

\* parseCibcRow(line) is called
ParseRow ==
  /\ probe.fn = "parseCibcRow" /\ ~probe.done
  /\ probe' = [probe EXCEPT !.done = TRUE,
                            !.fields = parseCsvLine(probe.line),
                            !.row = parseCibcRow(probe.line)]
  /\ UNCHANGED <<people, cycles, txs, dinners, receipts, item, syncs, issued, steps,
                 res, hist>>

CallsInit == Empty /\ probe \in (GroceryProbes \cup ParseProbes)

CallsNext == Classify \/ ParseRow

\* the functions of the routes applied to sampled arguments
Calls == CallsInit /\ [][CallsNext]_vars

\* s contains sub when the case of the letters is ignored
ContainsNoCase(s, sub) ==
  \E i \in 0..(Len(s) - Len(sub)) :
    \A j \in 1..Len(sub) : LowerChar(s[i + j]) = LowerChar(sub[j])

\* the keywords configured by env: its comma-separated entries without the
\* white space around them, the empty ones left out
ConfiguredKeywords(env) ==
  LET parts == SplitOn(env, ",", <<>>, <<>>)
  IN {Trim(parts[k]) : k \in 1..Len(parts)} \ {<<>>}

\* the merchant name of a record: merchant_name, or name when that is missing
\* or empty, or the empty string
MerchantNameOf(rec) ==
  IF ~rec.merchant_name.null /\ rec.merchant_name.val # <<>> THEN rec.merchant_name.val
  ELSE IF ~rec.name.null THEN rec.name.val
  ELSE <<>>

LabelsOf(rec) ==
  {rec.detailed[k] : k \in 1..Len(rec.detailed)}
    \cup {rec.category[k] : k \in 1..Len(rec.category)}

GroceryLabel(l) ==
  \/ ContainsNoCase(l, <<"g", "r", "o", "c", "e", "r", "i", "e", "s">>)
  \/ ContainsNoCase(l, <<"s", "u", "p", "e", "r", "m", "a", "r", "k", "e", "t">>)
  \/ ContainsNoCase(l, <<"f", "o", "o", "d", " ", "a", "n", "d", " ", "d", "r", "i", "n", "k">>)

KeywordMatch(env, rec) ==
  \E kw \in ConfiguredKeywords(env) : ContainsNoCase(MerchantNameOf(rec), kw)

\* C19: isGrocery answers true exactly when the merchant name contains, the
\* case of the letters ignored, a configured non-empty keyword or a category
\* label contains "groceries", "supermarket" or "food and drink"; the label
\* "Supermarkets and Other Grocery Stores" qualifies in any case of its
\* letters, a record labelled "Restaurants" only and matching no keyword does
\* not, and with an empty configuration no merchant name matches.
C19_IsGroceryByKeywordOrLabel ==
  (probe.fn = "isGrocery" /\ probe.done) =>
    /\ probe.grocery <=>
         (KeywordMatch(probe.env, probe.rec) \/ \E l \in LabelsOf(probe.rec) : GroceryLabel(l))
    /\ (\E l \in LabelsOf(probe.rec) :
          ToLowerCase(l) = ToLowerCase(LabelSupermarkets)) => probe.grocery
    /\ (LabelsOf(probe.rec) = {LabelRestaurants} /\ ~KeywordMatch(probe.env, probe.rec))
         => ~probe.grocery
    /\ (probe.env = <<>> /\ ~\E l \in LabelsOf(probe.rec) : GroceryLabel(l))
         => ~probe.grocery

\* a record with a merchant name, labelled "Restaurants" only, found not to be
\* grocery under an empty configuration
C19_Witness ==
  /\ probe.fn = "isGrocery" /\ probe.done
  /\ probe.env = <<>>
  /\ MerchantNameOf(probe.rec) # <<>>
  /\ LabelsOf(probe.rec) = {LabelRestaurants}
  /\ ~probe.grocery

\* C20: parseCsvLine gives back the fields a line was written from, a quoted
\* field keeping its delimiters and having each doubled quote turned into one
\* quote; parseCibcRow reads 2025-12-29, PHARMASAVE 115 VICTORIA, BC and 51.20
\* from the row 2025-12-29,"PHARMASAVE 115 VICTORIA, BC",51.20,,4500********6473.
C20_QuotedFieldsAreRead ==
  (probe.fn = "parseCibcRow" /\ probe.done) =>
    /\ probe.fields = probe.from
    /\ probe.line = RowPharmasave =>
         probe.row = [ok |-> TRUE, date |-> FieldsPharmasave[1],
                      merchant |-> FieldsPharmasave[2], amount |-> 51200]
    /\ probe.line = RowQuoted =>
         probe.row = [ok |-> TRUE, date |-> CsvDate,
                      merchant |-> FieldsQuoted[2], amount |-> 7000]

\* the row of the example parsed into its five fields, the second with a comma
C20_Witness ==
  /\ probe.fn = "parseCibcRow" /\ probe.done
  /\ probe.line = RowPharmasave
  /\ Len(probe.fields) = 5
  /\ \E k \in 1..Len(probe.fields[2]) : probe.fields[2][k] = ","
  /\ probe.row.ok /\ probe.row.amount = 51200

\* C21: in every state every stored transaction has a positive amount,
\* whether a bank sync, a CSV import or a manual entry stored it.
C21_StoredAmountsArePositive ==
  \A t \in txs : t.amount > 0

\* C22: in every state every stored dinner entry holds a weight that is a
\* non-negative integer, whatever dinner counts the bulk upsert was sent.
C22_WeightsAreNonNegative ==
  \A k \in 1..Len(dinners) : dinners[k].dinner_count \in Nat

\* no two entries of d belong to the same cycle and person
UniqueEntries(d) ==
  \A j, k \in 1..Len(d) :
    (d[j].cycle_id = d[k].cycle_id /\ d[j].person_id = d[k].person_id) => j = k

\* the people a save names
NamedIn(entries) == {entries[k].person_id : k \in 1..Len(entries)}

\* the weight the last entry of a save that names pid gives to pid
LastWeightFor(entries, pid) ==
  LET ks == {k \in 1..Len(entries) : entries[k].person_id = pid}
      last == CHOOSE k \in ks : \A j \in ks : j <= k
  IN NumberOrZero(entries[last].dinner_count)

\* C23: a cycle never holds two entries for one person, and a dinner-count
\* save that succeeds leaves every person it names with the weight it sent
\* and every other entry, of this and of every other cycle, as it was; so of
\* two saves for one cycle the one processed last decides the weight of each
\* person it names, the other one the weight of the people only it names.
C23_LastSaveWins ==
  [][/\ UniqueEntries(dinners')
     /\ \A id \in CycleIds, entries \in DinnerBodies :
          (res'.op = "putDinners" /\ res'.status = 200 /\ PutDinners(id, entries)) =>
            /\ \A p \in NamedIn(entries) :
                 \E k \in 1..Len(dinners') :
                   /\ dinners'[k].cycle_id = id
                   /\ dinners'[k].person_id = p
                   /\ dinners'[k].dinner_count = LastWeightFor(entries, p)
            /\ \A k \in 1..Len(dinners) :
                 (dinners[k].cycle_id # id \/ dinners[k].person_id \notin NamedIn(entries))
                   => \E j \in 1..Len(dinners') : dinners'[j] = dinners[k]
            /\ \A j \in 1..Len(dinners') :
                 (dinners'[j].cycle_id # id \/ dinners'[j].person_id \notin NamedIn(entries))
                   => \E k \in 1..Len(dinners) : dinners[k] = dinners'[j]]_vars

\* two saves for the same cycle, one after the other, the second answered
\* 200, have left two people of the cycle with different weights
C23_Witness ==
  /\ res.op = "putDinners" /\ res.status = 200 /\ hist.repeat
  /\ \E j, k \in 1..Len(dinners) :
       /\ dinners[j].cycle_id = res.cid /\ dinners[k].cycle_id = res.cid
       /\ dinners[j].person_id # dinners[k].person_id
       /\ dinners[j].dinner_count # dinners[k].dinner_count
       /\ dinners[j].dinner_count # 0 /\ dinners[k].dinner_count # 0

\* C24: in every state every active person has a dinner entry in every
\* cycle, the cycles created before the person was added included.
C24_ActivePeopleHaveEntries ==
  \A p \in people : \A c \in cycles :
    p.active =>
      \E k \in 1..Len(dinners) :
        dinners[k].cycle_id = c.id /\ dinners[k].person_id = p.id

\* C25: a dinner-count save that is answered with a failure has applied none
\* of its entries: the dinner entries are as they were before the request.
C25_FailedSaveAppliesNothing ==
  [][\A id \in CycleIds, entries \in DinnerBodies :
       (res'.op = "putDinners" /\ res'.status = 500 /\ PutDinners(id, entries))
         => dinners' = dinners]_vars

\* the non-empty lines of a text, each without the white space around it
NonEmptyLines(csv) ==
  LET raw == SplitOn(csv, "\n", <<>>, <<>>)
  IN {k \in 1..Len(raw) : Trim(raw[k]) # <<>>}

\* those of them that begin with a date
DateLines(csv) ==
  LET raw == SplitOn(csv, "\n", <<>>, <<>>)
  IN {k \in NonEmptyLines(csv) : StartsWithDate(Trim(raw[k]))}

\* the fingerprint of line k of a text, when the line is an acceptable row
LineFingerprint(csv, k) ==
  LET row == parseCibcRow(Trim(SplitOn(csv, "\n", <<>>, <<>>)[k]))
  IN IF row.ok THEN NotNull(fingerprint(row.date, row.merchant, row.amount))
     ELSE Null

\* C26: an import answered 200 reports counters added, skipped and errors
\* whose sum is the number of non-empty lines of the text that begin with a
\* date; it stores as many transactions as it reports added, and each of
\* them comes from a line that begins with a date, so the other lines are
\* counted nowhere and insert nothing.
C26_CountersCoverDateLines ==
  [][\A id \in CycleIds, csv \in CsvSamples :
       (res'.op = "importCsv" /\ res'.status = 200 /\ ImportCsv(id, csv)) =>
         /\ res'.added + res'.skipped + res'.errors = Cardinality(DateLines(csv))
         /\ Cardinality(txs' \ txs) = res'.added
         /\ txs \subseteq txs'
         /\ \A t \in txs' \ txs :
              \E k \in DateLines(csv) : t.plaid_id = LineFingerprint(csv, k)]_vars

\* an import answered 200 of a text with a line that does not begin with a
\* date and a row that was added
C26_Witness ==
  /\ res.op = "importCsv" /\ res.status = 200
  /\ NonEmptyLines(res.csv) # DateLines(res.csv)
  /\ res.added > 0
  /\ res.added + res.skipped + res.errors < Cardinality(NonEmptyLines(res.csv))

\* C27: in every state every stored cycle has a month key whose month is one
\* of 01..12, the first day of that month as its start date and the last day
\* of that month as its end date.
C27_CyclesAreCalendarMonths ==
  \A c \in cycles :
    LET year  == DigitsVal(SubSeq(c.month_key, 1, 4))
        month == DigitsVal(SubSeq(c.month_key, 6, 7))
    IN /\ month \in 1..12
       /\ c.date_from = c.month_key \o <<"-", "0", "1">>
       /\ c.date_to = c.month_key \o <<"-">> \o Pad2(DaysInMonth(year, month))

\* C28: a manual add with a merchant and an amount, sent to an open cycle, is
\* answered 201 and stores exactly one transaction more, in that cycle and
\* without a fingerprint, whether or not an equal transaction is already
\* stored; so n identical requests store n transactions.
C28_ManualAddsAreNotDeduplicated ==
  [][\A id \in CycleIds, m \in MerchantSamples, a \in TxAmountSamples :
       (ValidTx(m, a) /\ ~Finalized(id) /\ AddTx(id, m, a)) =>
         /\ res'.status = 201
         /\ \E t \in txs' :
              /\ t \notin txs
              /\ txs' = txs \cup {t}
              /\ t.cycle_id = id
              /\ t.plaid_id = Null
         /\ Cardinality(txByCycle(id)') = Cardinality(txByCycle(id)) + 1]_vars

\* a manual add answered 201 has left its cycle with two transactions that
\* differ in their ids only
C28_Witness ==
  /\ res.op = "addTx" /\ res.status = 201
  /\ \E t, u \in txs :
       /\ t.id # u.id
       /\ t.cycle_id = res.cid
       /\ t.plaid_id = Null
       /\ t.source = "receipt"
       /\ [u EXCEPT !.id = t.id] = t

\* the transaction ids of the bank the rows hold, one for each row that
\* carries one
ExternalIds(rows) ==
  {<<t.id, t.plaid_id.val>> : t \in {u \in rows : ~u.plaid_id.null}}

C30_OtherCyclesAreUntouched ==
  [][\A id \in CycleIds :
       (/\ res'.cid = id
        /\ \/ \E t \in TxIds : DeleteTx(id, t)
           \/ \E t \in TxIds, v \in {"true", "false"} : PatchTx(id, t, v)
           \/ \E r \in ReceiptIds : DeleteReceipt(id, r))
       => /\ {t \in txs' : t.cycle_id # id} = {t \in txs : t.cycle_id # id}
          /\ {r \in receipts' : r.cycle_id # id} = {r \in receipts : r.cycle_id # id}]_vars

====
